---- MODULE Spec2Model ----
(***************************************************************************)
(* tools/build.py of JanHett/spice: a build orchestrator that parses its   *)
(* command line, ensures root/build, runs cmake, links the compilation     *)
(* database, runs make (and make spice_coverage), optionally the           *)
(* documentation generator and optionally a built executable.              *)
(*                                                                         *)
(* Every subprocess.run is two steps, the spawn and the child's exit, so   *)
(* that "is running" is a state.  A child's returncode is any element of   *)
(* RetCodes: an exit status, or -N for a child killed by signal N.         *)
(* Environment assumption: os.makedirs and the spawning of each child      *)
(* succeed (no OSError is raised), so every subprocess.run returns.        *)
(***************************************************************************)
EXTENDS Integers, Sequences, FiniteSets, TLC

VARIABLES argv, args, pc, build_dir, dirs, cmake, make, doxygen, trace, exitCode,
          self, other

vars == <<argv, args, pc, build_dir, dirs, cmake, make, doxygen, trace, exitCode,
          self, other>>

----------------------------------------------------------------------------
(* Bounds of the model *)

\* longest --target list on the command line
MaxTargets == 1
\* longest --run-args string, in characters (two longer examples are added)
MaxArgLen == 2

----------------------------------------------------------------------------
(* Values *)

\* Python's None / an optional value: <<>> is None, <<x>> is x
None == <<>>
Some(x) == <<x>>
Get(o) == o[1]

TARGETS == <<"spice", "tests", "spice_coverage">>

Range(s) == {s[i] : i \in 1..Len(s)}

BuildTypeChoices == {"Debug", "Release"}

\* words a user may type where a build type is expected
BuildTypeWords == BuildTypeChoices \cup {"Foo"}
Roots == {".", "proj"}

\* str.split() separates at whitespace; the --run-args strings enumerated
\* are those over Chars, and the examples below
Whitespace == {" ", "\t"}
Chars == {"a", " "}

SeqsUpTo(S, n) == UNION {[1..k -> S] : k \in 0..n}

\* the --target lists: up to n of the words, each at most once, in the order
\* of TARGETS
Selections(words, n) ==
    UNION {{[i \in 1..k |-> words[f[i]]] :
              f \in {g \in [1..k -> 1..Len(words)] :
                        \A x, y \in 1..k : x < y => g[x] < g[y]}} : k \in 0..n}
TargetLists == Selections(TARGETS \o <<"bogus">>, MaxTargets)

\* words a user may type after --run
RunWords == {"spice", "tests", "bogus"}

ExampleRunArgs == <<"a", " ", "b", " ", "c">>
TabbedRunArgs == <<"\t", "b", "\t", " ", "a">>
RunArgStrings == SeqsUpTo(Chars, MaxArgLen) \cup {ExampleRunArgs, TabbedRunArgs}

\* returncode of a finished child: exit status, or -N when killed by a signal
RetCodes == {0, 1, 2, -9}
\* returncodes of the children whose CompletedProcess the script never reads
\* (ln, the documentation generator, the executable): success and failure
UnreadRetCodes == {0, 1}

\* the command lines: two positionals and the four options, each optional
Argvs ==
    [root : Roots,
     build_type : BuildTypeWords,
     target : {None} \cup {Some(l) : l \in TargetLists},
     run : {None} \cup {Some(t) : t \in RunWords},
     run_args : {None} \cup {Some(s) : s \in RunArgStrings},
     build_documentation : BOOLEAN]

----------------------------------------------------------------------------
(* Pure functions *)

\* ValidArgv without choices= on build-type
ValidArgvAnyBuildType(a) ==
    /\ a.target # None =>
          /\ Len(Get(a.target)) >= 1
          /\ \A i \in 1..Len(Get(a.target)) : Get(a.target)[i] \in Range(TARGETS)
    /\ a.run # None => Get(a.run) \in Range(TARGETS)

\* argparse accepts the command line: choices= of build-type, --target
\* (nargs='+': at least one value, each a known target) and --run
ValidArgv(a) ==
    /\ a.build_type \in BuildTypeChoices
    /\ a.target # None =>
          /\ Len(Get(a.target)) >= 1
          /\ \A i \in 1..Len(Get(a.target)) : Get(a.target)[i] \in Range(TARGETS)
    /\ a.run # None => Get(a.run) \in Range(TARGETS)

\* Namespace with --build-documentation declared store_false
NamespaceDocsByDefault(a) ==
    [root |-> a.root,
     build_type |-> a.build_type,
     target |-> IF a.target = None THEN TARGETS ELSE Get(a.target),
     run |-> a.run,
     run_args |-> a.run_args,
     build_documentation |-> ~a.build_documentation]

\* the Namespace parse_args returns: --target defaults to TARGETS
Namespace(a) ==
    [root |-> a.root,
     build_type |-> a.build_type,
     target |-> IF a.target = None THEN TARGETS ELSE Get(a.target),
     run |-> a.run,
     run_args |-> a.run_args,
     build_documentation |-> a.build_documentation]

EmptyNamespace ==
    [root |-> "", build_type |-> "", target |-> <<>>, run |-> None,
     run_args |-> None, build_documentation |-> FALSE]

\* os.path.abspath(os.path.join(root, name)), as path components
JoinPath(root, name) == <<root, name>>

\* str.split(): the maximal runs of non-whitespace characters, in order
RECURSIVE SplitFrom(_, _, _)
SplitFrom(s, i, cur) ==
    IF i > Len(s)
    THEN IF cur = <<>> THEN <<>> ELSE <<cur>>
    ELSE IF s[i] \in Whitespace
         THEN IF cur = <<>> THEN SplitFrom(s, i + 1, <<>>)
              ELSE <<cur>> \o SplitFrom(s, i + 1, <<>>)
         ELSE SplitFrom(s, i + 1, Append(cur, s[i]))

\* Split without the call of split(): the string is passed as one word
SplitNothing(s) == IF s = <<>> THEN <<>> ELSE <<s>>

Split(s) == SplitFrom(s, 1, <<>>)

\* truthiness of args.run (None or a target name) and of args.run_args
\* (None or a string of characters): None and the empty string are false
TruthyName(o) == o # None /\ Get(o) # ""
TruthyChars(o) == o # None /\ Get(o) # <<>>

\* the exit status the operating system sees after sys.exit(code)
SysExit(code) == code % 256

\* WantsCoverage that also takes the tests target for a coverage build
WantsCoverageOrTests(target) ==
    \E i \in 1..Len(target) : target[i] \in {"spice_coverage", "tests"}

\* 'spice_coverage' in args.target
WantsCoverage(target) == \E i \in 1..Len(target) : target[i] = "spice_coverage"

----------------------------------------------------------------------------
(* Commands and events *)

\* an argument vector is a sequence of words, a word a sequence of pieces
CmakeCmd(a) ==
    << <<"cmake">>, <<"-DCMAKE_BUILD_TYPE=", a.build_type>>,
       <<"-DCMAKE_EXPORT_COMPILE_COMMANDS=ON">>, <<"..">> >>
LnCmd ==
    << <<"ln">>, <<"-s">>, <<"./compile_commands.json">>,
       <<"../compile_commands.json">> >>
MakeCmd == << <<"make">> >>
MakeCoverageCmd == << <<"make">>, <<"spice_coverage">> >>
DoxygenCmd ==
    << <<"../external/m.css/documentation/doxygen.py">>, <<"Doxyfile-mcss">> >>
RunArgs(a) == IF TruthyChars(a.run_args) THEN Split(Get(a.run_args)) ELSE <<>>
RunCmd(a) == << <<"./", Get(a.run)>> >> \o RunArgs(a)

Started(step, cmd, cwd) == [ev |-> "start", step |-> step, cmd |-> cmd, cwd |-> cwd]
Exited(step, rc) == [ev |-> "exit", step |-> step, rc |-> rc]
Printed(step, color, msg, target) ==
    [ev |-> "print", step |-> step, color |-> color, msg |-> msg, target |-> target]
MadeDirs(path) == [ev |-> "makedirs", step |-> "makedirs", path |-> path]

----------------------------------------------------------------------------
(* The program *)

\* The variables above are those of the orchestrator process that is taking
\* steps; dirs is the file system, shared by all processes.  When a second
\* orchestrator runs on the same machine, other holds its variables while it
\* is not taking steps, and self tells which of the two is taking steps.
Absent == [pc |-> "absent"]

Init ==
    /\ argv \in Argvs
    /\ args = EmptyNamespace
    /\ pc = "parse_args"
    /\ build_dir = <<>>
    /\ dirs = {}
    /\ cmake = None
    /\ make = None
    /\ doxygen = None
    /\ trace = <<>>
    /\ exitCode = None
    /\ self = 1
    /\ other = Absent

\* parser.parse_args(): a usage error prints to stderr and exits with 2
ParseArgs ==
    /\ pc = "parse_args"
    /\ UNCHANGED <<self, other>>
    /\ IF ValidArgv(argv)
       THEN /\ args' = Namespace(argv)
            /\ pc' = "makedirs"
            /\ UNCHANGED <<trace, exitCode>>
       ELSE /\ trace' = Append(trace, Printed("parse_args", "NONE", "usage error", <<>>))
            /\ exitCode' = Some(SysExit(2))
            /\ pc' = "exited"
            /\ UNCHANGED args
    /\ UNCHANGED <<argv, build_dir, dirs, cmake, make, doxygen>>

\* build_dir = abspath(join(root, 'build')); os.makedirs(build_dir, exist_ok=True)
MakeDirs ==
    /\ pc = "makedirs"
    /\ UNCHANGED <<self, other>>
    /\ build_dir' = JoinPath(args.root, "build")
    /\ dirs' = dirs \cup {JoinPath(args.root, "build")}
    /\ trace' = Append(trace, MadeDirs(JoinPath(args.root, "build")))
    /\ pc' = "cmake"
    /\ UNCHANGED <<argv, args, cmake, make, doxygen, exitCode>>

\* SpawnCmake behind a lock on the build directory: it waits while another
\* orchestrator has a child running in the same directory
SpawnCmakeLocked ==
    /\ pc = "cmake"
    /\ UNCHANGED <<self, other>>
    /\ ~(/\ other.pc \in {"cmake_wait", "ln_wait", "make_wait",
                          "make_coverage_wait", "run_wait"}
         /\ other.build_dir = build_dir)
    /\ trace' = Append(trace, Started("cmake", CmakeCmd(args), build_dir))
    /\ pc' = "cmake_wait"
    /\ UNCHANGED <<argv, args, build_dir, dirs, cmake, make, doxygen, exitCode>>

\* cmake = subprocess.run(["cmake", ...], cwd=build_dir): the spawn
SpawnCmake ==
    /\ pc = "cmake"
    /\ UNCHANGED <<self, other>>
    /\ trace' = Append(trace, Started("cmake", CmakeCmd(args), build_dir))
    /\ pc' = "cmake_wait"
    /\ UNCHANGED <<argv, args, build_dir, dirs, cmake, make, doxygen, exitCode>>

\* CmakeExit without the sys.exit of line 89
CmakeExitNoAbort(rc) ==
    /\ pc = "cmake_wait"
    /\ UNCHANGED <<self, other>>
    /\ cmake' = Some(rc)
    /\ trace' = trace \o
          <<Exited("cmake", rc),
            IF rc = 0
            THEN Printed("cmake", "SUCCESS", "Finished building targets", args.target)
            ELSE Printed("cmake", "FAIL", "Building targets failed. Aborting.", args.target)>>
    /\ pc' = IF rc = 0 THEN "ln" ELSE "make"
    /\ UNCHANGED <<argv, args, build_dir, dirs, make, doxygen, exitCode>>

\* CmakeExit whose failure branch prints nothing
CmakeExitQuietFailure(rc) ==
    /\ pc = "cmake_wait"
    /\ UNCHANGED <<self, other>>
    /\ cmake' = Some(rc)
    /\ IF rc = 0
       THEN /\ trace' = trace \o
                 <<Exited("cmake", rc),
                   Printed("cmake", "SUCCESS", "Finished building targets", args.target)>>
            /\ pc' = "ln"
            /\ UNCHANGED exitCode
       ELSE /\ trace' = Append(trace, Exited("cmake", rc))
            /\ exitCode' = Some(SysExit(rc))
            /\ pc' = "exited"
    /\ UNCHANGED <<argv, args, build_dir, dirs, make, doxygen>>

\* cmake has finished with returncode rc: the if/else of lines 76-89
CmakeExit(rc) ==
    /\ pc = "cmake_wait"
    /\ UNCHANGED <<self, other>>
    /\ cmake' = Some(rc)
    /\ IF rc = 0
       THEN /\ trace' = trace \o
                 <<Exited("cmake", rc),
                   Printed("cmake", "SUCCESS", "Finished building targets", args.target)>>
            /\ pc' = "ln"
            /\ UNCHANGED exitCode
       ELSE /\ trace' = trace \o
                 <<Exited("cmake", rc),
                   Printed("cmake", "FAIL", "Building targets failed. Aborting.", args.target)>>
            /\ exitCode' = Some(SysExit(rc))
            /\ pc' = "exited"
    /\ UNCHANGED <<argv, args, build_dir, dirs, make, doxygen>>

\* SpawnLn that does not wait for ln (Popen instead of run)
SpawnLnNoWait ==
    /\ pc = "ln"
    /\ UNCHANGED <<self, other>>
    /\ trace' = Append(trace, Started("ln", LnCmd, build_dir))
    /\ pc' = "make"
    /\ UNCHANGED <<argv, args, build_dir, dirs, cmake, make, doxygen, exitCode>>

\* subprocess.run(["ln", "-s", ...], cwd=build_dir): the spawn
SpawnLn ==
    /\ pc = "ln"
    /\ UNCHANGED <<self, other>>
    /\ trace' = Append(trace, Started("ln", LnCmd, build_dir))
    /\ pc' = "ln_wait"
    /\ UNCHANGED <<argv, args, build_dir, dirs, cmake, make, doxygen, exitCode>>

\* LnExit that ends the run when ln failed
LnExitChecked(rc) ==
    /\ pc = "ln_wait"
    /\ UNCHANGED <<self, other>>
    /\ trace' = Append(trace, Exited("ln", rc))
    /\ IF rc = 0
       THEN pc' = "make" /\ UNCHANGED exitCode
       ELSE pc' = "exited" /\ exitCode' = Some(SysExit(rc))
    /\ UNCHANGED <<argv, args, build_dir, dirs, cmake, make, doxygen>>

\* ln has finished; its CompletedProcess is dropped
LnExit(rc) ==
    /\ pc = "ln_wait"
    /\ UNCHANGED <<self, other>>
    /\ trace' = Append(trace, Exited("ln", rc))
    /\ pc' = "make"
    /\ UNCHANGED <<argv, args, build_dir, dirs, cmake, make, doxygen, exitCode>>

\* make = subprocess.run(["make"], cwd=build_dir): the spawn
SpawnMake ==
    /\ pc = "make"
    /\ UNCHANGED <<self, other>>
    /\ trace' = Append(trace, Started("make", MakeCmd, build_dir))
    /\ pc' = "make_wait"
    /\ UNCHANGED <<argv, args, build_dir, dirs, cmake, make, doxygen, exitCode>>

\* make has finished; then the test 'spice_coverage' in args.target
MakeExit(rc) ==
    /\ pc = "make_wait"
    /\ UNCHANGED <<self, other>>
    /\ make' = Some(rc)
    /\ trace' = Append(trace, Exited("make", rc))
    /\ pc' = IF WantsCoverage(args.target) THEN "make_coverage" ELSE "make_check"
    /\ UNCHANGED <<argv, args, build_dir, dirs, cmake, doxygen, exitCode>>

\* make = subprocess.run(["make", "spice_coverage"], cwd=build_dir): the spawn
SpawnMakeCoverage ==
    /\ pc = "make_coverage"
    /\ UNCHANGED <<self, other>>
    /\ trace' = Append(trace, Started("make_coverage", MakeCoverageCmd, build_dir))
    /\ pc' = "make_coverage_wait"
    /\ UNCHANGED <<argv, args, build_dir, dirs, cmake, make, doxygen, exitCode>>

\* MakeCoverageExit that keeps a failure of make
MakeCoverageExitKeepsFailure(rc) ==
    /\ pc = "make_coverage_wait"
    /\ UNCHANGED <<self, other>>
    /\ make' = IF Get(make) # 0 THEN make ELSE Some(rc)
    /\ trace' = Append(trace, Exited("make_coverage", rc))
    /\ pc' = "make_check"
    /\ UNCHANGED <<argv, args, build_dir, dirs, cmake, doxygen, exitCode>>

\* make spice_coverage has finished: its result replaces that of make
MakeCoverageExit(rc) ==
    /\ pc = "make_coverage_wait"
    /\ UNCHANGED <<self, other>>
    /\ make' = Some(rc)
    /\ trace' = Append(trace, Exited("make_coverage", rc))
    /\ pc' = "make_check"
    /\ UNCHANGED <<argv, args, build_dir, dirs, cmake, doxygen, exitCode>>

\* CheckMake that runs make again after a failure
CheckMakeRetries ==
    /\ pc = "make_check"
    /\ UNCHANGED <<self, other>>
    /\ IF Get(make) = 0
       THEN /\ trace' = Append(trace,
                 Printed("make", "SUCCESS", "Finished making targets", args.target))
            /\ pc' = "docs"
       ELSE /\ trace' = Append(trace,
                 Printed("make", "FAIL", "Making targets failed. Aborting.", args.target))
            /\ pc' = "make"
    /\ UNCHANGED <<argv, args, build_dir, dirs, cmake, make, doxygen, exitCode>>

\* CheckMake without the sys.exit of line 104
CheckMakeNoAbort ==
    /\ pc = "make_check"
    /\ UNCHANGED <<self, other>>
    /\ trace' = Append(trace,
          IF Get(make) = 0
          THEN Printed("make", "SUCCESS", "Finished making targets", args.target)
          ELSE Printed("make", "FAIL", "Making targets failed. Aborting.", args.target))
    /\ pc' = "docs"
    /\ UNCHANGED <<argv, args, build_dir, dirs, cmake, make, doxygen, exitCode>>

\* the if/else on make.returncode of lines 98-104
CheckMake ==
    /\ pc = "make_check"
    /\ UNCHANGED <<self, other>>
    /\ IF Get(make) = 0
       THEN /\ trace' = Append(trace,
                 Printed("make", "SUCCESS", "Finished making targets", args.target))
            /\ pc' = "docs"
            /\ UNCHANGED exitCode
       ELSE /\ trace' = Append(trace,
                 Printed("make", "FAIL", "Making targets failed. Aborting.", args.target))
            /\ exitCode' = Some(SysExit(Get(make)))
            /\ pc' = "exited"
    /\ UNCHANGED <<argv, args, build_dir, dirs, cmake, make, doxygen>>

\* if args.build_documentation: doxygen = subprocess.run([...], cwd=doc_dir)
SpawnDoxygen ==
    /\ pc = "docs"
    /\ UNCHANGED <<self, other>>
    /\ args.build_documentation
    /\ trace' = Append(trace, Started("doxygen", DoxygenCmd, JoinPath(args.root, "doc")))
    /\ pc' = "doxygen_wait"
    /\ UNCHANGED <<argv, args, build_dir, dirs, cmake, make, doxygen, exitCode>>

\* SkipDoxygen with the run block nested in the documentation block
SkipDoxygenSkipsRun ==
    /\ pc = "docs"
    /\ UNCHANGED <<self, other>>
    /\ ~args.build_documentation
    /\ exitCode' = Some(SysExit(0))
    /\ pc' = "done"
    /\ UNCHANGED <<argv, args, build_dir, dirs, cmake, make, doxygen, trace>>

\* args.build_documentation is false: the block is skipped
SkipDoxygen ==
    /\ pc = "docs"
    /\ UNCHANGED <<self, other>>
    /\ ~args.build_documentation
    /\ pc' = "run"
    /\ UNCHANGED <<argv, args, build_dir, dirs, cmake, make, doxygen, trace, exitCode>>

\* the colour and text printed after the generator: lines 115-118 test
\* make.returncode, not doxygen.returncode
DoxygenReport(makeRc, doxygenRc) ==
    IF makeRc = 0
    THEN Printed("doxygen", "SUCCESS", "Doxygen finished.", <<>>)
    ELSE Printed("doxygen", "FAIL", "Doxygen failed.", <<>>)

\* DoxygenExit that ends the run when the generator failed
DoxygenExitAborts(rc) ==
    /\ pc = "doxygen_wait"
    /\ UNCHANGED <<self, other>>
    /\ doxygen' = Some(rc)
    /\ trace' = trace \o <<Exited("doxygen", rc), DoxygenReport(rc, rc)>>
    /\ IF rc = 0
       THEN pc' = "run" /\ UNCHANGED exitCode
       ELSE pc' = "exited" /\ exitCode' = Some(SysExit(rc))
    /\ UNCHANGED <<argv, args, build_dir, dirs, cmake, make>>

\* the generator has finished with returncode rc
DoxygenExit(rc) ==
    /\ pc = "doxygen_wait"
    /\ UNCHANGED <<self, other>>
    /\ doxygen' = Some(rc)
    /\ trace' = trace \o <<Exited("doxygen", rc), DoxygenReport(Get(make), rc)>>
    /\ pc' = "run"
    /\ UNCHANGED <<argv, args, build_dir, dirs, cmake, make, exitCode>>

\* if args.run: subprocess.run([f'./{args.run}', *run_args], cwd=build_dir)
SpawnRun ==
    /\ pc = "run"
    /\ UNCHANGED <<self, other>>
    /\ TruthyName(args.run)
    /\ trace' = Append(trace, Started("run", RunCmd(args), build_dir))
    /\ pc' = "run_wait"
    /\ UNCHANGED <<argv, args, build_dir, dirs, cmake, make, doxygen, exitCode>>

\* args.run is None: the script ends, the interpreter exits with 0
SkipRun ==
    /\ pc = "run"
    /\ UNCHANGED <<self, other>>
    /\ ~TruthyName(args.run)
    /\ exitCode' = Some(SysExit(0))
    /\ pc' = "done"
    /\ UNCHANGED <<argv, args, build_dir, dirs, cmake, make, doxygen, trace>>

\* RunExit that ends with sys.exit(returncode of the executable)
RunExitPropagates(rc) ==
    /\ pc = "run_wait"
    /\ UNCHANGED <<self, other>>
    /\ trace' = Append(trace, Exited("run", rc))
    /\ exitCode' = Some(SysExit(rc))
    /\ pc' = IF rc = 0 THEN "done" ELSE "exited"
    /\ UNCHANGED <<argv, args, build_dir, dirs, cmake, make, doxygen>>

\* the executable has finished; the script ends, the interpreter exits with 0
RunExit(rc) ==
    /\ pc = "run_wait"
    /\ UNCHANGED <<self, other>>
    /\ trace' = Append(trace, Exited("run", rc))
    /\ exitCode' = Some(SysExit(0))
    /\ pc' = "done"
    /\ UNCHANGED <<argv, args, build_dir, dirs, cmake, make, doxygen>>

Next ==
    \/ ParseArgs
    \/ MakeDirs
    \/ SpawnCmake
    \/ \E rc \in RetCodes : CmakeExit(rc)
    \/ SpawnLn
    \/ \E rc \in UnreadRetCodes : LnExit(rc)
    \/ SpawnMake
    \/ \E rc \in RetCodes : MakeExit(rc)
    \/ SpawnMakeCoverage
    \/ \E rc \in RetCodes : MakeCoverageExit(rc)
    \/ CheckMake
    \/ SpawnDoxygen
    \/ SkipDoxygen
    \/ \E rc \in UnreadRetCodes : DoxygenExit(rc)
    \/ SpawnRun
    \/ SkipRun
    \/ \E rc \in UnreadRetCodes : RunExit(rc)

Spec == Init /\ [][Next]_vars

\* the interpreter keeps running the script, and every child spawned by a
\* blocking subprocess.run terminates: no step that can be taken is put off
\* for ever
FairSpec == Spec /\ WF_vars(Next)

----------------------------------------------------------------------------
(* Two orchestrators on one machine *)

\* the variables of a process that has just been started on command line a
Launched(a) ==
    [argv |-> a, args |-> EmptyNamespace, pc |-> "parse_args", build_dir |-> <<>>,
     cmake |-> None, make |-> None, doxygen |-> None, trace |-> <<>>,
     exitCode |-> None]

\* the operating system turns to the other process: the two exchange roles
Switch ==
    /\ other.pc # "absent"
    /\ other' = [argv |-> argv, args |-> args, pc |-> pc, build_dir |-> build_dir,
                 cmake |-> cmake, make |-> make, doxygen |-> doxygen,
                 trace |-> trace, exitCode |-> exitCode]
    /\ argv' = other.argv
    /\ args' = other.args
    /\ pc' = other.pc
    /\ build_dir' = other.build_dir
    /\ cmake' = other.cmake
    /\ make' = other.make
    /\ doxygen' = other.doxygen
    /\ trace' = other.trace
    /\ exitCode' = other.exitCode
    /\ self' = 3 - self
    /\ UNCHANGED dirs

\* two concurrent invocations on the same root: one with any of --run and
\* --build-documentation, one without options
ConcArgvs ==
    [root : {"."},
     build_type : {"Debug"},
     target : {None},
     run : {None, Some("tests")},
     run_args : {None},
     build_documentation : BOOLEAN]

PlainArgv ==
    [root |-> ".", build_type |-> "Debug", target |-> None, run |-> None,
     run_args |-> None, build_documentation |-> FALSE]

ConcInit ==
    /\ argv \in ConcArgvs
    /\ args = EmptyNamespace
    /\ pc = "parse_args"
    /\ build_dir = <<>>
    /\ dirs = {}
    /\ cmake = None
    /\ make = None
    /\ doxygen = None
    /\ trace = <<>>
    /\ exitCode = None
    /\ self = 1
    /\ other = Launched(PlainArgv)

ConcNext == Next \/ Switch

ConcSpec == ConcInit /\ [][ConcNext]_vars

\* two invocations one after the other, on command lines that differ in
\* --target at most
PairTargets ==
    {None, Some(<<"spice">>), Some(<<"tests">>), Some(<<"spice_coverage">>)}

PairArgvs ==
    [root : {"."},
     build_type : {"Release"},
     target : PairTargets,
     run : {None, Some("spice")},
     run_args : {None},
     build_documentation : BOOLEAN]

PairInit ==
    /\ argv \in PairArgvs
    /\ args = EmptyNamespace
    /\ pc = "parse_args"
    /\ build_dir = <<>>
    /\ dirs = {}
    /\ cmake = None
    /\ make = None
    /\ doxygen = None
    /\ trace = <<>>
    /\ exitCode = None
    /\ self = 1
    /\ \E t \in PairTargets : other = Launched([argv EXCEPT !.target = t])

\* the second invocation is started when the first has ended
Handover ==
    /\ self = 1
    /\ pc \in {"done", "exited"}
    /\ Switch

PairNext == Next \/ Handover

PairSpec == PairInit /\ [][PairNext]_vars
----------------------------------------------------------------------------
(* Observations on a run, read off the trace *)

\* positions of the events of one kind of one step
Events(ev, step) == {i \in 1..Len(trace) : trace[i].ev = ev /\ trace[i].step = step}

\* the steps spawned so far, in the order of their spawning
RECURSIVE StartedFrom(_)
StartedFrom(i) ==
    IF i > Len(trace) THEN <<>>
    ELSE IF trace[i].ev = "start" THEN <<trace[i].step>> \o StartedFrom(i + 1)
         ELSE StartedFrom(i + 1)
StartedSteps == StartedFrom(1)

\* the returncodes a step has reported so far
Reported(step) == {trace[i].rc : i \in Events("exit", step)}

\* an exit status, as opposed to the -N of a child killed by a signal
ExitStatus == 0..255

\* the build step is over: its notification has been printed
BuildStepOver == Events("print", "make") # {}

\* the returncode of the last build invocation
LastBuildCode ==
    LET e == Events("exit", "make") \cup Events("exit", "make_coverage")
        last == CHOOSE i \in e : \A j \in e : j <= i
    IN  trace[last].rc

----------------------------------------------------------------------------
(* C1 .. C5: propagation of the configure and build results *)

\* C1: once cmake has reported a non-zero exit status C, the run is over
\* with exit code C, and nothing but cmake has ever been spawned: no ln,
\* no make, no documentation generator, no executable.
C1_ConfigureFailureAborts ==
    \A c \in Reported("cmake") \cap (ExitStatus \ {0}) :
        /\ pc = "exited"
        /\ exitCode = Some(c)
        /\ StartedSteps = <<"cmake">>

C1_Witness ==
    /\ Reported("cmake") = {2}
    /\ pc = "exited"
    /\ exitCode = Some(2)

\* C2: when cmake has reported 0 and the build step is over with a non-zero
\* exit status C (the code of its last invocation), the run is over with
\* exit code C and neither the documentation generator nor the executable
\* has been spawned, whatever --build-documentation and --run are.
C2_BuildFailureAborts ==
    (Reported("cmake") = {0} /\ BuildStepOver
        /\ LastBuildCode \in ExitStatus \ {0}) =>
        /\ pc = "exited"
        /\ exitCode = Some(LastBuildCode)
        /\ Events("start", "doxygen") = {}
        /\ Events("start", "run") = {}

C2_Witness ==
    /\ Reported("cmake") = {0}
    /\ BuildStepOver
    /\ LastBuildCode = 2
    /\ args.build_documentation
    /\ args.run # None
    /\ pc = "exited"

\* the command line carries none of --target, --run, --run-args,
\* --build-documentation, and its build type is a valid one
NoOptionalFlags ==
    /\ argv.build_type \in {"Debug", "Release"}
    /\ argv.target = None
    /\ argv.run = None
    /\ argv.run_args = None
    /\ ~argv.build_documentation

\* C3: a run without optional flags spawns nothing but the configure step
\* (cmake, then the ln of the compilation database) followed by the build
\* step (make, then make spice_coverage, since the default targets contain
\* spice_coverage); when it has ended and cmake and make reported only 0,
\* exactly these four were spawned, in this order, and the exit code is 0.
C3_PlainRunConfiguresThenBuilds ==
    NoOptionalFlags =>
        /\ \E n \in 0..4 :
              StartedSteps = SubSeq(<<"cmake", "ln", "make", "make_coverage">>, 1, n)
        /\ (/\ pc \in {"done", "exited"}
            /\ Reported("cmake") = {0}
            /\ Reported("make") \cup Reported("make_coverage") = {0}) =>
              /\ StartedSteps = <<"cmake", "ln", "make", "make_coverage">>
              /\ pc = "done"
              /\ exitCode = Some(0)

C3_Witness ==
    /\ NoOptionalFlags
    /\ pc = "done"
    /\ exitCode = Some(0)
    /\ Reported("cmake") = {0}
    /\ Reported("make") = {0}
    /\ Reported("make_coverage") = {0}

\* spice_coverage is among the targets selected on the command line
\* (all targets are selected when --target is absent)
CoverageSelected ==
    \/ argv.target = None
    \/ \E i \in 1..Len(Get(argv.target)) : Get(argv.target)[i] = "spice_coverage"

\* C4: with spice_coverage selected, once the build step is over make has
\* been spawned once and make spice_coverage once after it, and the outcome
\* follows the code of make spice_coverage alone: success is notified iff
\* that code is 0, and otherwise the run is over with that code as its exit
\* status.  Without spice_coverage, make spice_coverage is never spawned and
\* the outcome follows the code of the one make.
C4_CoverageBuildDecides ==
    /\ ~CoverageSelected => Events("start", "make_coverage") = {}
    /\ Cardinality(Events("start", "make")) <= 1
    /\ BuildStepOver =>
          LET decisive == IF CoverageSelected THEN "make_coverage" ELSE "make"
              note == trace[CHOOSE i \in Events("print", "make") : TRUE]
          IN  /\ Cardinality(Events("start", "make")) = 1
              /\ Cardinality(Events("start", "make_coverage")) =
                    (IF CoverageSelected THEN 1 ELSE 0)
              /\ \A i \in Events("start", "make_coverage") :
                    \A j \in Events("exit", "make") : j < i
              /\ Cardinality(Events("print", "make")) = 1
              /\ \A c \in Reported(decisive) :
                    /\ (note.color = "SUCCESS") <=> (c = 0)
                    /\ (note.color = "FAIL") <=> (c # 0)
                    /\ c # 0 => pc = "exited" /\ exitCode = Some(c % 256)
                    /\ c = 0 => pc # "exited"

\* make failed, make spice_coverage succeeded, and the run went on
C4_Witness ==
    /\ CoverageSelected
    /\ Reported("make") = {2}
    /\ Reported("make_coverage") = {0}
    /\ BuildStepOver
    /\ pc = "done"
    /\ exitCode = Some(0)

\* C5: once cmake has reported 0 and the build step is over with code 0,
\* the run never exits early and it ends with exit code 0, whether or not
\* the documentation generator and the executable were run and whatever
\* they returned.
C5_LaterStepsDoNotChangeExitCode ==
    (Reported("cmake") = {0} /\ BuildStepOver /\ LastBuildCode = 0) =>
        /\ pc # "exited"
        /\ exitCode \in {None, Some(0)}
        /\ pc = "done" => exitCode = Some(0)

C5_Witness ==
    /\ pc = "done"
    /\ exitCode = Some(0)
    /\ Reported("doxygen") = {1}
    /\ Reported("run") = {1}
----------------------------------------------------------------------------
(* C6 .. C10: documentation report, usage errors, run step, ordering *)

\* C6: once the documentation generator has returned, exactly one
\* notification reports it, a success notification iff the generator
\* returned 0 and a failure notification iff it returned non-zero.
C6_DocReportMatchesGenerator ==
    \A c \in Reported("doxygen") :
        /\ Cardinality(Events("print", "doxygen")) = 1
        /\ \A i \in Events("print", "doxygen") :
              /\ (trace[i].color = "SUCCESS") <=> (c = 0)
              /\ (trace[i].color = "FAIL") <=> (c # 0)

\* the command line is invalid in the way C7 names: a build type other
\* than Debug and Release, or a --target or --run value that is no target
InvalidCommandLine ==
    \/ argv.build_type \notin {"Debug", "Release"}
    \/ /\ argv.target # None
       /\ \E i \in 1..Len(Get(argv.target)) :
             Get(argv.target)[i] \notin {"spice", "tests", "spice_coverage"}
    \/ /\ argv.run # None
       /\ Get(argv.run) \notin {"spice", "tests", "spice_coverage"}

\* C7: an invalid command line creates no directory and spawns no process,
\* and once it has been parsed the run is over with a non-zero exit code.
C7_UsageErrorBeforeSideEffects ==
    InvalidCommandLine =>
        /\ dirs = {}
        /\ \A i \in 1..Len(trace) : trace[i].ev \notin {"makedirs", "start", "exit"}
        /\ pc \in {"parse_args", "exited"}
        /\ pc = "exited" => exitCode # None /\ Get(exitCode) # 0

C7_Witness ==
    /\ InvalidCommandLine
    /\ pc = "exited"
    /\ exitCode = Some(2)
    /\ dirs = {}

\* C8: once the command line is parsed, a requested run target is one of
\* the targets of the build step, and every build notification names it.
C8_RunTargetAmongTargets ==
    (pc # "parse_args" /\ pc # "exited" /\ args.run # None) =>
        /\ Get(args.run) \in Range(args.target)
        /\ \A i \in Events("print", "make") : Get(args.run) \in Range(trace[i].target)

\* the tokens of a string, stated by position: a token starts at every
\* non-whitespace character that is first or follows whitespace, and
\* extends over the non-whitespace characters up to the next whitespace
IsSpace(ch) == ch \in {" ", "\t"}
TokenStarts(str) ==
    {i \in 1..Len(str) : ~IsSpace(str[i]) /\ (i = 1 \/ IsSpace(str[i - 1]))}
TokenEnd(str, i) ==
    CHOOSE k \in i..Len(str) :
        /\ \A m \in i..k : ~IsSpace(str[m])
        /\ k = Len(str) \/ IsSpace(str[k + 1])
NthStart(str, n) ==
    CHOOSE i \in TokenStarts(str) :
        Cardinality({j \in TokenStarts(str) : j < i}) = n - 1
Tokens(str) ==
    [n \in 1..Cardinality(TokenStarts(str)) |->
        SubSeq(str, NthStart(str, n), TokenEnd(str, NthStart(str, n)))]

\* C9: the run step spawns ./<run target> in root/build, and its arguments
\* are the whitespace-separated tokens of --run-args in their order, none
\* when --run-args is absent or empty; "a b c" gives a, b, c.
C9_RunCommand ==
    \A i \in Events("start", "run") :
        LET given == IF argv.run_args = None THEN <<>> ELSE Get(argv.run_args) IN
        /\ argv.run # None
        /\ Head(trace[i].cmd) = <<"./", Get(argv.run)>>
        /\ trace[i].cwd = <<argv.root, "build">>
        /\ Tail(trace[i].cmd) = Tokens(given)
        /\ given = <<"a", " ", "b", " ", "c">> =>
              Tail(trace[i].cmd) = << <<"a">>, <<"b">>, <<"c">> >>

C9_Witness ==
    /\ Events("start", "run") # {}
    /\ argv.run_args = Some(<<"a", " ", "b", " ", "c">>)
    /\ argv.run = Some("tests")
    /\ pc = "done"

\* the place of a step in the pipeline
Rank(step) ==
    CASE step = "makedirs" -> 0
      [] step = "cmake" -> 1
      [] step = "ln" -> 2
      [] step = "make" -> 3
      [] step = "make_coverage" -> 4
      [] step = "doxygen" -> 5
      [] step = "run" -> 6

Begun == {i \in 1..Len(trace) : trace[i].ev \in {"makedirs", "start"}}

\* C10: the steps begin in the order makedirs, cmake, ln, make,
\* make spice_coverage, doxygen, run; nothing happens between the spawning
\* of a child and its exit, so that when a step begins every step begun
\* before it has exited; and cmake is spawned in a directory that makedirs
\* has created before.
C10_FixedOrder ==
    /\ \A i, j \in Begun : i < j => Rank(trace[i].step) < Rank(trace[j].step)
    /\ \A i \in 1..Len(trace) - 1 :
          trace[i].ev = "start" =>
              trace[i + 1].ev = "exit" /\ trace[i + 1].step = trace[i].step
    /\ \A j \in Events("start", "cmake") :
          /\ trace[j].cwd \in dirs
          /\ \E i \in 1..j - 1 :
                trace[i].ev = "makedirs" /\ trace[i].path = trace[j].cwd

C10_Witness ==
    /\ pc = "done"
    /\ StartedSteps = <<"cmake", "ln", "make", "make_coverage", "doxygen", "run">>

----------------------------------------------------------------------------
(* C11 .. C15: termination, gating of the optional steps, the symlink,
   retries, notifications *)

\* the command line is one argparse accepts (stated on the words typed)
ValidCommandLine ==
    /\ argv.build_type \in {"Debug", "Release"}
    /\ argv.target # None =>
          /\ Get(argv.target) # <<>>
          /\ \A i \in 1..Len(Get(argv.target)) :
                Get(argv.target)[i] \in {"spice", "tests", "spice_coverage"}
    /\ argv.run # None => Get(argv.run) \in {"spice", "tests", "spice_coverage"}

\* the run has ended by sys.exit after a failed cmake, or after a build step
\* whose last invocation failed, with that code as its exit status
FailedByConfigureOrBuild ==
    /\ Events("start", "doxygen") = {}
    /\ Events("start", "run") = {}
    /\ \/ /\ StartedSteps = <<"cmake">>
          /\ \E c \in Reported("cmake") : c # 0 /\ exitCode = Some(c % 256)
       \/ /\ Reported("cmake") = {0}
          /\ BuildStepOver
          /\ LastBuildCode # 0
          /\ exitCode = Some(LastBuildCode % 256)

ConfigureAndBuildSucceeded ==
    /\ Reported("cmake") = {0}
    /\ BuildStepOver
    /\ LastBuildCode = 0

\* C12: the documentation generator is spawned only with
\* --build-documentation and after configure and build have succeeded, the
\* executable only with --run and after both have succeeded; and when the
\* run has ended each has been spawned exactly in these cases, the
\* executable whether or not the generator ran and whatever it returned.
C12_OptionalStepsGated ==
    LET docs == Events("start", "doxygen") # {}
        run == Events("start", "run") # {}
    IN  /\ docs => argv.build_documentation /\ ConfigureAndBuildSucceeded
        /\ run => argv.run # None /\ ConfigureAndBuildSucceeded
        /\ pc \in {"done", "exited"} =>
              LET ok == ConfigureAndBuildSucceeded
              IN  /\ docs <=> (argv.build_documentation /\ ok)
                  /\ run <=> (argv.run # None /\ ok)

C12_Witness ==
    /\ pc = "done"
    /\ ~argv.build_documentation
    /\ Events("start", "doxygen") = {}
    /\ Events("start", "run") # {}

\* C13: ln is spawned only after cmake reported 0, and always then; make is
\* spawned only after ln has exited; and whatever ln returned the run does
\* not end before the build step is over, and its exit code is the code of
\* the build step.
C13_SymlinkUnchecked ==
    /\ Events("start", "ln") # {} => Reported("cmake") = {0}
    /\ (pc \in {"done", "exited"} /\ Reported("cmake") = {0}) =>
          Events("start", "ln") # {}
    /\ \A j \in Events("start", "make") : \E i \in Events("exit", "ln") : i < j
    /\ \A c \in Reported("ln") :
          /\ pc \notin {"ln", "ln_wait"}
          /\ pc \in {"done", "exited"} =>
                /\ Events("start", "make") # {}
                /\ BuildStepOver
                /\ exitCode = Some(LastBuildCode % 256)

C13_Witness ==
    /\ Reported("ln") = {1}
    /\ Reported("make") = {0}
    /\ pc = "done"
    /\ exitCode = Some(0)

Steps == {"cmake", "ln", "make", "make_coverage", "doxygen", "run"}

\* C14: each of cmake, ln, make, make spice_coverage, the documentation
\* generator and the executable is spawned at most once in a run, and the
\* build directory is ensured at most once.
C14_NoRetries ==
    /\ \A step \in Steps : Cardinality(Events("start", step)) <= 1
    /\ Cardinality(Events("makedirs", "makedirs")) <= 1

C14_Witness ==
    /\ Reported("ln") = {1}
    /\ Reported("make") = {1}
    /\ Reported("make_coverage") = {2}
    /\ pc = "exited"
    /\ StartedSteps = <<"cmake", "ln", "make", "make_coverage">>

\* the targets requested on the command line: those of --target, all when
\* it is absent
RequestedTargets ==
    IF argv.target = None THEN <<"spice", "tests", "spice_coverage">>
    ELSE Get(argv.target)

\* the notification of a step matches the code c: one notification, naming
\* the requested targets, of failure iff c is non-zero and then the run has
\* ended with c as exit status, of success iff c is 0
NotifiedOnce(step, c) ==
    /\ Cardinality(Events("print", step)) = 1
    /\ \A i \in Events("print", step) :
          /\ trace[i].target = RequestedTargets
          /\ (trace[i].color = "FAIL") <=> (c # 0)
          /\ (trace[i].color = "SUCCESS") <=> (c = 0)
    /\ c # 0 => pc = "exited" /\ exitCode = Some(c % 256)

\* the code the build step is judged by is known
BuildCodeKnown ==
    IF CoverageSelected THEN Reported("make_coverage") # {}
    ELSE Reported("make") # {}

\* C15: no notification of the configure step before cmake has exited, and
\* exactly one after, matching cmake's code; no notification of the build
\* step before its last invocation has exited, and exactly one once the
\* test of lines 98-104 has run, matching that invocation's code.
C15_StepNotifications ==
    /\ Reported("cmake") = {} => Events("print", "cmake") = {}
    /\ \A c \in Reported("cmake") : NotifiedOnce("cmake", c)
    /\ ~BuildCodeKnown => Events("print", "make") = {}
    /\ (BuildCodeKnown /\ pc = "make_check") => Events("print", "make") = {}
    /\ (BuildCodeKnown /\ pc # "make_check") => NotifiedOnce("make", LastBuildCode)

C15_Witness ==
    /\ argv.target = Some(<<"tests">>)
    /\ Reported("cmake") = {0}
    /\ Reported("make") = {2}
    /\ pc = "exited"
    /\ Cardinality(Events("print", "cmake")) = 1
    /\ Cardinality(Events("print", "make")) = 1

----------------------------------------------------------------------------
(* C16, C17: two invocations *)

\* a child of an external step (configure, build, run) is running
ExternalStepRunning == {"cmake_wait", "make_wait", "make_coverage_wait", "run_wait"}

\* C16: with two orchestrators on the same root, the one taking steps never
\* waits for the other: unless it has ended it has a next step, whatever the
\* other is doing, also while a child of the other is running in the same
\* build directory.  (Its witness is the state the claim names: both have a
\* child of an external step running in the same build directory.)
C16_NoCoordination ==
    (argv.root = other.argv.root /\ pc \notin {"done", "exited"}) => ENABLED Next

C16_Witness ==
    /\ argv.root = other.argv.root
    /\ build_dir = other.build_dir
    /\ pc \in ExternalStepRunning
    /\ other.pc \in ExternalStepRunning

\* the commands a run has spawned, with their working directories, in order
RECURSIVE CommandsOf(_)
CommandsOf(tr) ==
    IF tr = <<>> THEN <<>>
    ELSE IF Head(tr).ev = "start"
         THEN <<[cmd |-> Head(tr).cmd, cwd |-> Head(tr).cwd]>> \o CommandsOf(Tail(tr))
         ELSE CommandsOf(Tail(tr))

\* the colours and texts a run has printed, in order
RECURSIVE NotesOf(_)
NotesOf(tr) ==
    IF tr = <<>> THEN <<>>
    ELSE IF Head(tr).ev = "print"
         THEN <<[color |-> Head(tr).color, msg |-> Head(tr).msg]>> \o NotesOf(Tail(tr))
         ELSE NotesOf(Tail(tr))

\* the returncodes a step has reported in a run
CodesOf(tr, step) ==
    {tr[i].rc : i \in {j \in 1..Len(tr) : tr[j].ev = "exit" /\ tr[j].step = step}}

\* the two runs were given the same returncodes by the steps both have run
SameExternalCodes ==
    \A step \in Steps :
        \/ CodesOf(trace, step) = {}
        \/ CodesOf(other.trace, step) = {}
        \/ CodesOf(trace, step) = CodesOf(other.trace, step)

\* spice_coverage is selected by a --target value (all targets when absent)
SelectsCoverage(t) ==
    t = None \/ \E i \in 1..Len(Get(t)) : Get(t)[i] = "spice_coverage"

\* C17: two ended runs whose command lines differ in --target at most, with
\* spice_coverage selected by both or by neither, and whose steps reported
\* the same returncodes, have spawned the same commands with the same
\* arguments in the same directories in the same order, have printed
\* notifications of the same colours and texts, and have the same exit code.
C17_TargetsMatterThroughCoverageOnly ==
    (/\ self = 2
     /\ pc \in {"done", "exited"}
     /\ [argv EXCEPT !.target = None] = [other.argv EXCEPT !.target = None]
     /\ SelectsCoverage(argv.target) = SelectsCoverage(other.argv.target)
     /\ SameExternalCodes) =>
        /\ CommandsOf(trace) = CommandsOf(other.trace)
        /\ NotesOf(trace) = NotesOf(other.trace)
        /\ exitCode = other.exitCode

C17_Witness ==
    /\ self = 2
    /\ pc = "done"
    /\ argv.target = Some(<<"tests">>)
    /\ other.argv.target = Some(<<"spice">>)
    /\ SameExternalCodes
    /\ Len(CommandsOf(trace)) = 5
    /\ CommandsOf(trace) = CommandsOf(other.trace)
====
